---- MODULE Spec2Model ----
(***************************************************************************)
(* A model of rust-protoc-bin-vendored:                                    *)
(*   - the platform resolver of protoc-bin-vendored/src/lib.rs together    *)
(*     with the bundle crate protoc-bin-vendored-linux-riscv64,            *)
(*   - the test helper compare_recursively and the test                    *)
(*     arch_crates_includes_identical of protoc-bin-vendored/src/lib.rs,   *)
(*   - the workflow generator ci-gen/src/main.rs.                          *)
(* The three parts share no state; each has its own specification.         *)
(***************************************************************************)
EXTENDS Naturals, Sequences, FiniteSets, TLC

VARIABLES
    os,         \* env::consts::OS of the running process
    arch,       \* env::consts::ARCH of the running process
    disk,       \* the bundles' files: path -> "file" | "dir" | "absent"
    outcome,    \* the last call into the resolver or a bundle, and its result
    a,          \* the tree at compare_recursively's first path
    b,          \* the tree at compare_recursively's second path
    cmp,        \* "none", or how compare_recursively(a, b) ended
    include,    \* the tree at each linked bundle's include path
    testResult, \* "none", or how arch_crates_includes_identical ended
    root,       \* the entries of ci-gen's working directory: name -> kind
    pc,         \* where jobs() stands: "loop", "extra", "done", "panicked"
    ci,         \* the index of the channel the outer loop of jobs() is at
    oi,         \* the index of the os the inner loop of jobs() is at
    r           \* the Vec<Job> jobs() has built so far

resolverVars == <<os, arch, disk, outcome>>
compareVars == <<a, b, cmp>>
testVars == <<include, testResult>>
ciVars == <<root, pc, ci, oi, r>>

vars == <<resolverVars, compareVars, testVars, ciVars>>

----------------------------------------------------------------------------
(* Results of Rust calls: Ok(v), Err(e), or a panic (a failed assertion     *)
(* or unwrap).                                                              *)

Ok(v) == [tag |-> "Ok", val |-> v]
Err(e) == [tag |-> "Err", val |-> e]
Panic == [tag |-> "panic"]

----------------------------------------------------------------------------
(* protoc-bin-vendored/src/lib.rs: the resolver                             *)

\* Values env::consts::OS and env::consts::ARCH range over in the model.
OsSet == {"linux", "macos", "windows", "freebsd"}
ArchSet == {"x86", "x86_64", "aarch64", "powerpc64", "s390x", "riscv64"}

\* struct Error { os, arch }
Error(o, ar) == [os |-> o, arch |-> ar]

\* impl fmt::Display for Error
Display(e) ==
    "protoc binary cannot be found for platform " \o e.os \o "-" \o e.arch

\* enum ArchCrate
ArchCrate ==
    { "Linux_X86_32", "Linux_X86_64", "Linux_Aarch_64", "Linux_Ppcle_64",
      "Linux_S390_64", "Macos_Aarch_64", "Macos_x86_64", "Win32" }

\* A detect() whose last arm is a default instead of an error.
detectWithDefault(o, ar) ==
    IF o = "linux" /\ ar = "x86" THEN Ok("Linux_X86_32")
    ELSE IF o = "linux" /\ ar = "x86_64" THEN Ok("Linux_X86_64")
    ELSE IF o = "linux" /\ ar = "aarch64" THEN Ok("Linux_Aarch_64")
    ELSE IF o = "linux" /\ ar = "powerpc64" THEN Ok("Linux_Ppcle_64")
    ELSE IF o = "linux" /\ ar = "s390x" THEN Ok("Linux_S390_64")
    ELSE IF o = "macos" /\ ar = "x86_64" THEN Ok("Macos_x86_64")
    ELSE IF o = "macos" /\ ar = "aarch64" THEN Ok("Macos_Aarch_64")
    ELSE IF o = "windows" THEN Ok("Win32")
    ELSE Ok("Linux_X86_64")

\* A detect() that fills the error's fields the wrong way round.
detectSwappedPair(o, ar) ==
    IF o = "linux" /\ ar = "x86" THEN Ok("Linux_X86_32")
    ELSE IF o = "linux" /\ ar = "x86_64" THEN Ok("Linux_X86_64")
    ELSE IF o = "linux" /\ ar = "aarch64" THEN Ok("Linux_Aarch_64")
    ELSE IF o = "linux" /\ ar = "powerpc64" THEN Ok("Linux_Ppcle_64")
    ELSE IF o = "linux" /\ ar = "s390x" THEN Ok("Linux_S390_64")
    ELSE IF o = "macos" /\ ar = "x86_64" THEN Ok("Macos_x86_64")
    ELSE IF o = "macos" /\ ar = "aarch64" THEN Ok("Macos_Aarch_64")
    ELSE IF o = "windows" THEN Ok("Win32")
    ELSE Err(Error(ar, o))

\* ArchCrate::detect: the match on (OS, ARCH), arms tried in order.
detect(o, ar) ==
    IF o = "linux" /\ ar = "x86" THEN Ok("Linux_X86_32")
    ELSE IF o = "linux" /\ ar = "x86_64" THEN Ok("Linux_X86_64")
    ELSE IF o = "linux" /\ ar = "aarch64" THEN Ok("Linux_Aarch_64")
    ELSE IF o = "linux" /\ ar = "powerpc64" THEN Ok("Linux_Ppcle_64")
    ELSE IF o = "linux" /\ ar = "s390x" THEN Ok("Linux_S390_64")
    ELSE IF o = "macos" /\ ar = "x86_64" THEN Ok("Macos_x86_64")
    ELSE IF o = "macos" /\ ar = "aarch64" THEN Ok("Macos_Aarch_64")
    ELSE IF o = "windows" THEN Ok("Win32")
    ELSE Err(Error(o, ar))

\* The bundle crate each arm of protoc_bin_path calls into.
protoc_bin_crate(v) ==
    CASE v = "Linux_X86_32" -> "protoc-bin-vendored-linux-x86_32"
      [] v = "Linux_X86_64" -> "protoc-bin-vendored-linux-x86_64"
      [] v = "Linux_Aarch_64" -> "protoc-bin-vendored-linux-aarch_64"
      [] v = "Linux_Ppcle_64" -> "protoc-bin-vendored-linux-ppcle_64"
      [] v = "Linux_S390_64" -> "protoc-bin-vendored-linux-s390_64"
      [] v = "Macos_Aarch_64" -> "protoc-bin-vendored-macos-aarch_64"
      [] v = "Macos_x86_64" -> "protoc-bin-vendored-macos-x86_64"
      [] v = "Win32" -> "protoc-bin-vendored-win32"

\* The bundle crate each arm of include_path_for_arch calls into.
include_crate(v) ==
    CASE v = "Linux_X86_32" -> "protoc-bin-vendored-linux-x86_32"
      [] v = "Linux_X86_64" -> "protoc-bin-vendored-linux-x86_64"
      [] v = "Linux_Aarch_64" -> "protoc-bin-vendored-linux-aarch_64"
      [] v = "Linux_Ppcle_64" -> "protoc-bin-vendored-linux-ppcle_64"
      [] v = "Linux_S390_64" -> "protoc-bin-vendored-linux-s390_64"
      [] v = "Macos_Aarch_64" -> "protoc-bin-vendored-macos-aarch_64"
      [] v = "Macos_x86_64" -> "protoc-bin-vendored-macos-x86_64"
      [] v = "Win32" -> "protoc-bin-vendored-win32"

\* The bundle crates the resolver links against (its extern crates).
LinkedCrates == { protoc_bin_crate(v) : v \in ArchCrate }

\* The bundle crate of src/protoc-bin-vendored-linux-riscv64.
Riscv64Crate == "protoc-bin-vendored-linux-riscv64"

\* Every bundle crate of the repository.
BundleCrates == LinkedCrates \cup {Riscv64Crate}

----------------------------------------------------------------------------
(* Paths and the disk.  A path is the sequence of its components; the      *)
(* first component stands for a crate's CARGO_MANIFEST_DIR.                *)

cargo_manifest_dir(crate) == <<crate>>

join(p, c) == Append(p, c)

BinPathOf(crate) == join(join(cargo_manifest_dir(crate), "bin"), "protoc")
IncludePathOf(crate) == join(cargo_manifest_dir(crate), "include")

DiskPaths ==
    { BinPathOf(c) : c \in BundleCrates } \cup { IncludePathOf(c) : c \in BundleCrates }

\* Path::exists and Path::is_dir
exists(d, p) == d[p] # "absent"
is_dir(d, p) == d[p] = "dir"

\* The disk as the crates are packaged.
Packaged ==
    [p \in DiskPaths |-> IF p[Len(p)] = "include" THEN "dir" ELSE "file"]

\* How many paths may differ from the packaged layout.
MaxDamaged == 1

Damaged(d) == { p \in DiskPaths : d[p] # Packaged[p] }

----------------------------------------------------------------------------
(* protoc-bin-vendored-linux-riscv64/src/lib.rs                             *)

\* include_path() without its assertion.
riscv64_include_path_unchecked(d) == Ok(IncludePathOf(Riscv64Crate))

\* include_path(): assert!(include_path.is_dir())
riscv64_include_path(d) ==
    LET include_path == join(cargo_manifest_dir(Riscv64Crate), "include")
    IN  IF is_dir(d, include_path) THEN Ok(include_path) ELSE Panic

\* protoc_bin_path(): assert!(protoc_bin_path.exists(), ...)
riscv64_protoc_bin_path(d) ==
    LET protoc_bin_path ==
            join(join(cargo_manifest_dir(Riscv64Crate), "bin"), "protoc")
    IN  IF exists(d, protoc_bin_path) THEN Ok(protoc_bin_path) ELSE Panic

(* The eight bundle crates the resolver dispatches to, after the contract  *)
(* the specification states for them (the returned path is guaranteed to   *)
(* exist, a missing file aborts), in the shape of the riscv64 bundle.      *)
bundle_include_path(crate, d) ==
    LET include_path == join(cargo_manifest_dir(crate), "include")
    IN  IF is_dir(d, include_path) THEN Ok(include_path) ELSE Panic

bundle_protoc_bin_path(crate, d) ==
    LET protoc_bin_path == join(join(cargo_manifest_dir(crate), "bin"), "protoc")
    IN  IF exists(d, protoc_bin_path) THEN Ok(protoc_bin_path) ELSE Panic

----------------------------------------------------------------------------
(* protoc-bin-vendored/src/lib.rs: the public functions                     *)

\* pub fn protoc_bin_path() -> Result<PathBuf, Error>
protoc_bin_path(o, ar, d) ==
    LET v == detect(o, ar)
    IN  IF v.tag = "Err" THEN v
        ELSE bundle_protoc_bin_path(protoc_bin_crate(v.val), d)

\* pub(crate) fn include_path_for_arch(arch_crate: &ArchCrate) -> PathBuf
include_path_for_arch(v, d) == bundle_include_path(include_crate(v), d)

\* pub fn include_path() -> Result<PathBuf, Error>
include_path(o, ar, d) ==
    LET v == detect(o, ar)
    IN  IF v.tag = "Err" THEN v ELSE include_path_for_arch(v.val, d)

----------------------------------------------------------------------------
(* Each specification leaves the other parts' variables at these values.    *)

IdleResolver ==
    /\ os = "linux"
    /\ arch = "x86_64"
    /\ disk = <<>>
    /\ outcome = [call |-> "none", res |-> [tag |-> "none"]]

IdleCompare == a = <<>> /\ b = <<>> /\ cmp = "none"

IdleTest == include = <<>> /\ testResult = "none"

IdleCi == root = <<>> /\ pc = "idle" /\ ci = 1 /\ oi = 1 /\ r = <<>>

----------------------------------------------------------------------------
(* The resolver's state machine                                             *)

ResolverCalls == {"protoc_bin_path", "include_path"}

InitResolver ==
    /\ os \in OsSet
    /\ arch \in ArchSet
    /\ disk = Packaged
    /\ outcome = [call |-> "none", res |-> [tag |-> "none"]]
    /\ IdleCompare
    /\ IdleTest
    /\ IdleCi

CallProtocBinPath ==
    /\ outcome' = [call |-> "protoc_bin_path", res |-> protoc_bin_path(os, arch, disk)]
    /\ UNCHANGED <<os, arch, disk>>
    /\ UNCHANGED <<compareVars, testVars, ciVars>>

CallIncludePath ==
    /\ outcome' = [call |-> "include_path", res |-> include_path(os, arch, disk)]
    /\ UNCHANGED <<os, arch, disk>>
    /\ UNCHANGED <<compareVars, testVars, ciVars>>

CallRiscv64ProtocBinPath ==
    /\ outcome' = [call |-> "riscv64::protoc_bin_path", res |-> riscv64_protoc_bin_path(disk)]
    /\ UNCHANGED <<os, arch, disk>>
    /\ UNCHANGED <<compareVars, testVars, ciVars>>

CallRiscv64IncludePath ==
    /\ outcome' = [call |-> "riscv64::include_path", res |-> riscv64_include_path(disk)]
    /\ UNCHANGED <<os, arch, disk>>
    /\ UNCHANGED <<compareVars, testVars, ciVars>>

\* The environment removes, replaces or restores one of the bundles' paths.
DiskChange ==
    /\ \E p \in DiskPaths, k \in {"file", "dir", "absent"} :
          /\ disk[p] # k
          /\ disk' = [disk EXCEPT ![p] = k]
          /\ Cardinality(Damaged(disk')) <= MaxDamaged
    /\ UNCHANGED <<os, arch, outcome>>
    /\ UNCHANGED <<compareVars, testVars, ciVars>>

NextResolver ==
    \/ CallProtocBinPath
    \/ CallIncludePath
    \/ CallRiscv64ProtocBinPath
    \/ CallRiscv64IncludePath
    \/ DiskChange

SpecResolver == InitResolver /\ [][NextResolver]_vars

----------------------------------------------------------------------------
(* File names and their order.  A name is the sequence of its characters;  *)
(* Rust orders String and the components of a PathBuf byte by byte.        *)

\* The characters the model's names use, in ascending byte order.
ByteOrder ==
    << "-", ".", "0", "1", "2", "3", "4", "5", "6", "7", "8", "9",
       "A", "B", "C", "D", "E", "F", "G", "H", "I", "J", "K", "L", "M",
       "N", "O", "P", "Q", "R", "S", "T", "U", "V", "W", "X", "Y", "Z", "_",
       "a", "b", "c", "d", "e", "f", "g", "h", "i", "j", "k", "l", "m",
       "n", "o", "p", "q", "r", "s", "t", "u", "v", "w", "x", "y", "z" >>

Byte(ch) == CHOOSE i \in 1..Len(ByteOrder) : ByteOrder[i] = ch

\* Ord for str: lexicographic on bytes, a proper prefix first.
RECURSIVE StrLess(_, _)
StrLess(x, y) ==
    IF y = <<>> THEN FALSE
    ELSE IF x = <<>> THEN TRUE
    ELSE IF Head(x) # Head(y) THEN Byte(Head(x)) < Byte(Head(y))
    ELSE StrLess(Tail(x), Tail(y))

\* The elements of a sequence of names in ascending order (slice::sort).
RECURSIVE SortNames(_)
SortNames(names) ==
    IF names = <<>> THEN <<>>
    ELSE LET least == CHOOSE i \in 1..Len(names) :
                          \A j \in 1..Len(names) :
                              i = j \/ StrLess(names[i], names[j])
                                    \/ (names[i] = names[j] /\ i < j)
             rest == [k \in 1..(Len(names) - 1) |->
                          IF k < least THEN names[k] ELSE names[k + 1]]
         IN  <<names[least]>> \o SortNames(rest)

\* The orders in which read_dir may enumerate a set of names.
Enumerations(S) ==
    { q \in [1..Cardinality(S) -> S] : \A n \in S : \E i \in DOMAIN q : q[i] = n }

\* The name as a string, for format!.
RECURSIVE Str(_)
Str(name) == IF name = <<>> THEN "" ELSE Head(name) \o Str(Tail(name))

----------------------------------------------------------------------------
(* Directory trees: a file with its bytes, or a directory with its         *)
(* entries, a function from names to trees.                                *)

File(c) == [kind |-> "file", content |-> c, entries |-> <<>>]
Directory(e) == [kind |-> "dir", content |-> <<>>, entries |-> e]

\* The names directory entries take, the bytes files hold, the depth of trees.
EntryNames == { <<"a">>, <<"b">> }
MaxByte == 1
MaxDepth == 2

Contents == { <<c>> : c \in 0..MaxByte }

RECURSIVE Trees(_)
Trees(depth) ==
    { File(c) : c \in Contents } \cup
    ( IF depth = 0 THEN { Directory(<<>>) }
      ELSE { Directory(e) :
                e \in UNION { [S -> Trees(depth - 1)] : S \in SUBSET EntryNames } } )

\* Path::is_file
is_file(t) == t.kind = "file"

\* fs::read_dir(..).map(|e| e.unwrap().path()).collect(), in the order the
\* file system gives, which the sort that follows makes irrelevant.
read_dir(t) ==
    CHOOSE q \in Enumerations(DOMAIN t.entries) : TRUE

(* compare_recursively(a, b): TRUE when the call returns, FALSE when an    *)
(* assert_eq!, assert! or unwrap in it panics.                             *)
RECURSIVE compare_recursively(_, _)
RECURSIVE compare_entries(_, _, _, _)

\* The while loop over the two sorted slices and the asserts after it.
compare_entries(x, y, a_files, b_files) ==
    IF a_files # <<>> \/ b_files # <<>>
    THEN IF a_files = <<>> \/ b_files = <<>>
         THEN FALSE                                \* split_first().unwrap()
         ELSE /\ compare_recursively(x.entries[Head(a_files)],
                                     y.entries[Head(b_files)])
              /\ compare_entries(x, y, Tail(a_files), Tail(b_files))
    ELSE TRUE                                      \* both slices are empty

compare_recursively(x, y) ==
    IF is_file(x) # is_file(y) THEN FALSE          \* assert_eq!(is_file, is_file)
    ELSE IF is_file(x) THEN x.content = y.content  \* assert_eq!(a_content, b_content)
    ELSE compare_entries(x, y, SortNames(read_dir(x)), SortNames(read_dir(y)))

----------------------------------------------------------------------------
(* compare_recursively applied to a pair of trees                           *)

InitCompare ==
    /\ a \in Trees(MaxDepth)
    /\ b \in Trees(MaxDepth)
    /\ cmp = "none"
    /\ IdleResolver
    /\ IdleTest
    /\ IdleCi

Compare ==
    /\ cmp = "none"
    /\ cmp' = IF compare_recursively(a, b) THEN "returned" ELSE "panicked"
    /\ UNCHANGED <<a, b>>
    /\ UNCHANGED <<resolverVars, testVars, ciVars>>

NextCompare == Compare

SpecCompare == InitCompare /\ [][NextCompare]_vars

----------------------------------------------------------------------------
(* The test arch_crates_includes_identical over the bundles' include trees  *)

\* The depth of the include trees.
IncludeDepth == 1

\* The second argument of each compare_recursively call of the test, in order.
ComparedVariants ==
    << "Linux_X86_64", "Linux_X86_32", "Linux_Aarch_64", "Linux_Ppcle_64",
       "Linux_S390_64", "Macos_Aarch_64", "Macos_x86_64", "Win32" >>

\* The kind of each include path, as the bundles' assertions see it.
DiskOf(inc) ==
    [p \in { IncludePathOf(include_crate(v)) : v \in ArchCrate } |->
        LET v == CHOOSE w \in ArchCrate : IncludePathOf(include_crate(w)) = p
        IN  inc[v].kind]

\* One call of the test: both include_path_for_arch, then the comparison.
compare_with_reference(inc, v) ==
    /\ include_path_for_arch("Linux_X86_64", DiskOf(inc)).tag = "Ok"
    /\ include_path_for_arch(v, DiskOf(inc)).tag = "Ok"
    /\ compare_recursively(inc["Linux_X86_64"], inc[v])

\* fn arch_crates_includes_identical(): passes when no call panics.
arch_crates_includes_identical(inc) ==
    \A i \in 1..Len(ComparedVariants) :
        compare_with_reference(inc, ComparedVariants[i])

\* Every bundle holds the same tree, but for at most one bundle.
InitTest ==
    /\ \E ref \in Trees(IncludeDepth), v \in ArchCrate, t \in Trees(IncludeDepth) :
          include = [w \in ArchCrate |-> IF w = v THEN t ELSE ref]
    /\ testResult = "none"
    /\ IdleResolver
    /\ IdleCompare
    /\ IdleCi

RunTest ==
    /\ testResult = "none"
    /\ testResult' = IF arch_crates_includes_identical(include)
                     THEN "passed" ELSE "failed"
    /\ UNCHANGED include
    /\ UNCHANGED <<resolverVars, compareVars, ciVars>>

NextTest == RunTest

SpecTest == InitTest /\ [][NextTest]_vars

----------------------------------------------------------------------------
(* ci-gen/src/main.rs                                                       *)

\* The names the working directory's entries take.
CiGen == <<"c", "i", "-", "g", "e", "n">>
Vendored == <<"p", "r", "o", "t", "o", "c", "-", "b", "i", "n", "-", "v", "e", "n", "d", "o", "r", "e", "d">>
ArchTemplate == <<"p", "r", "o", "t", "o", "c", "-", "b", "i", "n", "-", "v", "e", "n", "d", "o", "r", "e", "d", "-", "a", "r", "c", "h", "-", "t", "e", "m", "p", "l", "a", "t", "e">>
LinuxRiscv64 == <<"p", "r", "o", "t", "o", "c", "-", "b", "i", "n", "-", "v", "e", "n", "d", "o", "r", "e", "d", "-", "l", "i", "n", "u", "x", "-", "r", "i", "s", "c", "v", "6", "4">>

RootNames == { CiGen, Vendored, ArchTemplate, LinuxRiscv64 }

\* An entry is absent, a plain file, a directory without Cargo.toml ("dir")
\* or a directory that holds a Cargo.toml ("crate").
EntryKinds == { "absent", "file", "dir", "crate" }

\* Path::new("./<name>").exists()
root_exists(rt, name) == rt[name] # "absent"

\* Path::new("<name>/Cargo.toml").exists()
has_manifest(rt, name) == rt[name] = "crate"

\* crates_list() without r.sort().
crates_list_unsorted(rt, enumeration) ==
    IF ~ root_exists(rt, CiGen) THEN Panic
    ELSE LET found == SelectSeq(enumeration, LAMBDA p : has_manifest(rt, p))
         IN  IF Len(found) > 0 THEN Ok(found) ELSE Panic

\* fn crates_list() -> Vec<String>, read_dir(".") enumerating the entries
\* in the order `enumeration`.
crates_list(rt, enumeration) ==
    IF ~ root_exists(rt, CiGen) THEN Panic          \* assert!(./ci-gen exists)
    ELSE LET found == SelectSeq(enumeration, LAMBDA p : has_manifest(rt, p))
             sorted == SortNames(found)
         IN  IF Len(sorted) > 0 THEN Ok(sorted) ELSE Panic   \* assert!(r.len() > 0)

\* step.timeout_minutes = Some(5)
TimeoutMinutes == 5

\* The steps of gh_actions_gen::actions, by what they are told.
cargo_cache == [kind |-> "cargo_cache"]
checkout_sources == [kind |-> "checkout_sources"]
rust_install_toolchain(channel) == [kind |-> "rust_install_toolchain", channel |-> channel]
cargo_doc(name, args) == [kind |-> "cargo_doc", name |-> name, args |-> args]
cargo_test(name, args) ==
    [kind |-> "cargo_test", name |-> name, args |-> args, timeout_minutes |-> <<>>]

\* The body of the for loop of steps() for one crate: the step it pushes.
test_step(c) ==
    LET args == "--manifest-path=" \o Str(c) \o "/Cargo.toml"
        step == cargo_test("cargo test " \o Str(c), args)
    IN  [step EXCEPT !.timeout_minutes = <<TimeoutMinutes>>]

\* The for loop of steps() without its `continue`.
RECURSIVE test_steps_all(_)
test_steps_all(crates) ==
    IF crates = <<>> THEN <<>>
    ELSE <<test_step(Head(crates))>> \o test_steps_all(Tail(crates))

\* The for loop of steps(): a step per crate, the arch template skipped.
RECURSIVE test_steps(_)
test_steps(crates) ==
    IF crates = <<>> THEN <<>>
    ELSE IF Head(crates) = ArchTemplate THEN test_steps(Tail(crates))
    ELSE <<test_step(Head(crates))>> \o test_steps(Tail(crates))

\* fn steps(_os: Os, channel: RustToolchain) -> Vec<Step>
steps(o, channel, rt, enumeration) ==
    LET crates == crates_list(rt, enumeration)
    IN  IF crates.tag = "panic" THEN Panic
        ELSE Ok(<<cargo_cache, checkout_sources, rust_install_toolchain(channel)>>
                    \o test_steps(crates.val))

\* const LINUX, MACOS, WINDOWS
LINUX == [name |-> "linux", ghwf |-> "UbuntuLatest"]
MACOS == [name |-> "macos", ghwf |-> "MacosLatest"]
WINDOWS == [name |-> "windows", ghwf |-> "WindowsLatest"]

\* The arrays the two loops of jobs() run over; a channel is written as
\* format! displays it.
Channels == <<"stable", "beta", "nightly">>
Platforms == <<LINUX, MACOS, WINDOWS>>

\* A condition that skips beta on macos alone.
skipped_macos_only(channel, o) == channel = "beta" /\ o = MACOS

\* if channel == Beta && (os == MACOS || os == WINDOWS) { continue; }
skipped(channel, o) == channel = "beta" /\ (o = MACOS \/ o = WINDOWS)

\* The Job pushed for one (channel, os).
matrix_job(channel, o, sts) ==
    [ id |-> o.name \o "-" \o channel,
      name |-> o.name \o " " \o channel,
      runs_on |-> o.ghwf,
      env |-> << <<"RUST_BACKTRACE", "1">> >>,
      steps |-> sts ]

\* fn cargo_doc_job() -> Job
cargo_doc_job ==
    [ id |-> "cargo-doc",
      name |-> "cargo doc",
      runs_on |-> LINUX.ghwf,
      env |-> <<>>,
      steps |-> << cargo_cache, checkout_sources,
                   rust_install_toolchain("stable"), cargo_doc("cargo doc", "") >> ]

\* The jobs of gh_actions_gen::rustfmt and gh_actions_gen::super_mega_linter.
rustfmt_check_job == [extern |-> "rustfmt_check_job"]
mega_linter_job == [extern |-> "mega_linter_job"]

\* The three pushes after the loops, with the last two exchanged.
extra_jobs_misordered == <<cargo_doc_job, mega_linter_job, rustfmt_check_job>>

\* The three pushes after the loops of jobs().
extra_jobs == <<cargo_doc_job, rustfmt_check_job, mega_linter_job>>

----------------------------------------------------------------------------
(* jobs(), one iteration of its inner loop at a time                        *)

InitCi ==
    /\ root \in [RootNames -> EntryKinds]
    /\ pc = "loop"
    /\ ci = 1
    /\ oi = 1
    /\ r = <<>>
    /\ IdleResolver
    /\ IdleCompare
    /\ IdleTest

\* The loop indices after the iteration at (ci, oi).
Advance ==
    /\ oi' = IF oi < Len(Platforms) THEN oi + 1 ELSE 1
    /\ ci' = IF oi < Len(Platforms) THEN ci ELSE ci + 1
    /\ pc' = IF oi = Len(Platforms) /\ ci = Len(Channels) THEN "extra" ELSE "loop"

\* An iteration the `continue` cuts short.
JobsSkip ==
    /\ pc = "loop"
    /\ skipped(Channels[ci], Platforms[oi])
    /\ Advance
    /\ UNCHANGED <<root, r>>
    /\ UNCHANGED <<resolverVars, compareVars, testVars>>

\* An iteration that pushes a job.
JobsPush ==
    /\ pc = "loop"
    /\ ~ skipped(Channels[ci], Platforms[oi])
    /\ \E enumeration \in Enumerations({ n \in RootNames : root_exists(root, n) }) :
          LET sts == steps(Platforms[oi], Channels[ci], root, enumeration)
          IN  /\ sts.tag = "Ok"
              /\ r' = Append(r, matrix_job(Channels[ci], Platforms[oi], sts.val))
    /\ Advance
    /\ UNCHANGED root
    /\ UNCHANGED <<resolverVars, compareVars, testVars>>

\* An iteration in which an assertion of crates_list() fails.
JobsPanic ==
    /\ pc = "loop"
    /\ ~ skipped(Channels[ci], Platforms[oi])
    /\ \E enumeration \in Enumerations({ n \in RootNames : root_exists(root, n) }) :
          steps(Platforms[oi], Channels[ci], root, enumeration).tag = "panic"
    /\ pc' = "panicked"
    /\ UNCHANGED <<root, ci, oi, r>>
    /\ UNCHANGED <<resolverVars, compareVars, testVars>>

\* The pushes after the loops; jobs() returns r.
JobsExtra ==
    /\ pc = "extra"
    /\ r' = r \o extra_jobs
    /\ pc' = "done"
    /\ UNCHANGED <<root, ci, oi>>
    /\ UNCHANGED <<resolverVars, compareVars, testVars>>

NextCi ==
    \/ JobsSkip
    \/ JobsPush
    \/ JobsPanic
    \/ JobsExtra

SpecCi == InitCi /\ [][NextCi]_vars

----------------------------------------------------------------------------
(* Properties of the resolver                                               *)

\* The (os, arch) pairs detect's match writes out in full.
ListedPairs ==
    { <<"linux", "x86">>, <<"linux", "x86_64">>, <<"linux", "aarch64">>,
      <<"linux", "powerpc64">>, <<"linux", "s390x">>,
      <<"macos", "x86_64">>, <<"macos", "aarch64">> }

\* C1 as stated: the resolver yields a variant only for a pair listed in the
\* enumeration; every unlisted (os, arch) pair fails, none is resolved
\* through a catch-all.
C1_OnlyListedPairsResolve ==
    outcome.call \in ResolverCalls =>
        (outcome.res.tag # "Err" <=> <<os, arch>> \in ListedPairs)

\* C1 as amended: the resolver yields a variant exactly for the listed pairs
\* and, through the arch wildcard of the windows arm, for every pair whose
\* os is "windows" (always the Win32 bundle); every other pair yields Err.
C1_ListedOrWindowsResolve ==
    outcome.call \in ResolverCalls =>
        /\ outcome.res.tag # "Err" <=>
               (<<os, arch>> \in ListedPairs \/ os = "windows")
        /\ (outcome.res.tag = "Ok" /\ os = "windows") =>
               outcome.res.val[1] = "protoc-bin-vendored-win32"
        /\ (outcome.res.tag = "Ok" /\ os # "windows") =>
               outcome.res.val[1] \in LinkedCrates \ {"protoc-bin-vendored-win32"}

\* The wildcard arm has resolved an arch no arm names.
C1_Witness ==
    /\ outcome.call = "protoc_bin_path"
    /\ os = "windows" /\ arch = "riscv64"
    /\ outcome.res.tag = "Ok"

\* C2: when resolution fails, the Error holds exactly the observed pair, its
\* Display text is "protoc binary cannot be found for platform <os>-<arch>",
\* and protoc_bin_path and include_path fail with the same error value.
C2_ErrorCarriesObservedPair ==
    (outcome.call \in ResolverCalls /\ outcome.res.tag = "Err") =>
        /\ outcome.res.val.os = os
        /\ outcome.res.val.arch = arch
        /\ Display(outcome.res.val) =
               "protoc binary cannot be found for platform " \o os \o "-" \o arch
        /\ protoc_bin_path(os, arch, disk).tag = "Err"
        /\ include_path(os, arch, disk).tag = "Err"
        /\ protoc_bin_path(os, arch, disk).val = include_path(os, arch, disk).val

\* include_path has failed on linux-riscv64.
C2_Witness ==
    /\ outcome.call = "include_path"
    /\ outcome.res.tag = "Err"
    /\ os = "linux" /\ arch = "riscv64"
    /\ Display(outcome.res.val) =
           "protoc binary cannot be found for platform linux-riscv64"

IncludeCalls == {"include_path", "riscv64::include_path"}

\* C3: a call never returns Ok with a path that is not there: an Ok of
\* protoc_bin_path exists on disk, an Ok of include_path is a directory, and
\* with the expected file or directory missing the call aborts.
C3_OkPathExists ==
    [][ disk' = disk =>
          /\ outcome'.res.tag = "Ok" =>
                IF outcome'.call \in IncludeCalls
                THEN is_dir(disk', outcome'.res.val)
                ELSE exists(disk', outcome'.res.val)
          /\ (outcome'.call = "riscv64::protoc_bin_path"
                /\ disk'[<<Riscv64Crate, "bin", "protoc">>] = "absent") =>
                outcome'.res.tag = "panic"
          /\ (outcome'.call = "riscv64::include_path"
                /\ disk'[<<Riscv64Crate, "include">>] # "dir") =>
                outcome'.res.tag = "panic"
          /\ (outcome'.call = "protoc_bin_path"
                /\ detect(os, arch).tag = "Ok"
                /\ disk'[<<protoc_bin_crate(detect(os, arch).val), "bin", "protoc">>]
                       = "absent") =>
                outcome'.res.tag = "panic"
          /\ (outcome'.call = "include_path"
                /\ detect(os, arch).tag = "Ok"
                /\ disk'[<<include_crate(detect(os, arch).val), "include">>] # "dir") =>
                outcome'.res.tag = "panic"
      ]_vars

\* The riscv64 bundle's include_path has aborted on a missing directory.
C3_Witness ==
    /\ outcome.call = "riscv64::include_path"
    /\ outcome.res.tag = "panic"
    /\ ~ is_dir(disk, <<Riscv64Crate, "include">>)

\* C10: every bundle crate of the repository is selected by detect for some
\* (os, arch) pair, with both dispatch arms leading to that bundle (so that,
\* its files being in place, both public functions return paths inside it),
\* and every ArchCrate variant is produced by detect for some pair.
C10_EveryBundleSelectable ==
    /\ \A c \in BundleCrates :
          (exists(disk, BinPathOf(c)) /\ is_dir(disk, IncludePathOf(c))) =>
              \E o \in OsSet, ar \in ArchSet :
                  /\ protoc_bin_path(o, ar, disk).tag = "Ok"
                  /\ protoc_bin_path(o, ar, disk).val[1] = c
                  /\ include_path(o, ar, disk).tag = "Ok"
                  /\ include_path(o, ar, disk).val[1] = c
    /\ \A v \in ArchCrate :
          \E o \in OsSet, ar \in ArchSet :
              detect(o, ar).tag = "Ok" /\ detect(o, ar).val = v

----------------------------------------------------------------------------
(* Properties of compare_recursively and of the test                        *)

\* C9: compare_recursively(a, b) returns without a panic if and only if the
\* two trees are identical; trees that differ in the number of entries, in
\* an entry's name, in an entry's kind or in a file's bytes make it panic.
C9_ReturnsIffIdentical ==
    cmp # "none" => (cmp = "returned" <=> a = b)

\* C4: the include trees of every two variants are identical whenever the
\* test arch_crates_includes_identical passes, the test comparing every
\* variant of the enumeration with Linux_X86_64.
C4_TestEstablishesIdentical ==
    /\ { ComparedVariants[i] : i \in 1..Len(ComparedVariants) } = ArchCrate
    /\ testResult = "passed" =>
          \A v \in ArchCrate, w \in ArchCrate : include[v] = include[w]

----------------------------------------------------------------------------
(* Properties of jobs()                                                     *)

\* The buildable units: the directories that hold a Cargo.toml, but for the
\* arch template.
Units(rt) == { n \in RootNames : rt[n] = "crate" /\ n # ArchTemplate }

ManifestArg(n) == "--manifest-path=" \o Str(n) \o "/Cargo.toml"

PlatformSet == { Platforms[i] : i \in 1..Len(Platforms) }
ChannelSet == { Channels[i] : i \in 1..Len(Channels) }

JobId(o, channel) == o.name \o "-" \o channel

\* A job of the platform/channel matrix.
IsMatrixJob(j) ==
    /\ "id" \in DOMAIN j
    /\ \E o \in PlatformSet, channel \in ChannelSet : j.id = JobId(o, channel)

JobsWithId(id) == { i \in 1..Len(r) : "id" \in DOMAIN r[i] /\ r[i].id = id }

\* C5: every matrix job holds exactly one test step for each buildable unit
\* and none for the arch template or for an entry without a manifest; every
\* test step has a timeout of 5 minutes.
C5_OneTestStepPerUnit ==
    \A i \in 1..Len(r) : IsMatrixJob(r[i]) =>
        LET st == r[i].steps
            TestsOf(n) == { k \in 1..Len(st) :
                              st[k].kind = "cargo_test" /\ st[k].args = ManifestArg(n) }
        IN  /\ \A n \in RootNames :
                  Cardinality(TestsOf(n)) = IF n \in Units(root) THEN 1 ELSE 0
            /\ \A k \in 1..Len(st) : st[k].kind = "cargo_test" =>
                  /\ st[k].timeout_minutes = <<5>>
                  /\ \E n \in Units(root) :
                        /\ st[k].args = ManifestArg(n)
                        /\ st[k].name = "cargo test " \o Str(n)

\* jobs() has returned with the template and a directory without a manifest
\* beside two units.
C5_Witness ==
    /\ pc = "done"
    /\ root[CiGen] = "crate" /\ root[LinuxRiscv64] = "crate"
    /\ root[ArchTemplate] = "crate" /\ root[Vendored] = "dir"
    /\ \A i \in 1..(Len(r) - 3) : Len(r[i].steps) = 5

\* C6: every matrix job starts with cache restore, source checkout and the
\* toolchain install of the job's channel, in that order, followed by the
\* test steps alone, in ascending order of unit name.
C6_StepsOrdered ==
    \A i \in 1..Len(r) : IsMatrixJob(r[i]) =>
        LET st == r[i].steps
        IN  /\ Len(st) >= 3
            /\ st[1] = cargo_cache
            /\ st[2] = checkout_sources
            /\ \E o \in PlatformSet, channel \in ChannelSet :
                  /\ r[i].id = JobId(o, channel)
                  /\ st[3] = rust_install_toolchain(channel)
            /\ \E S \in SUBSET RootNames : \E q \in Enumerations(S) :
                  /\ \A x \in DOMAIN q, y \in DOMAIN q : x < y => StrLess(q[x], q[y])
                  /\ Len(st) = 3 + Len(q)
                  /\ \A k \in DOMAIN q :
                        /\ st[3 + k].kind = "cargo_test"
                        /\ st[3 + k].args = ManifestArg(q[k])

\* jobs() has returned with three units, one name a prefix of another.
C6_Witness ==
    /\ pc = "done"
    /\ Units(root) = { CiGen, Vendored, LinuxRiscv64 }
    /\ Len(r[1].steps) = 6
    /\ r[1].steps[4].args = "--manifest-path=ci-gen/Cargo.toml"
    /\ r[1].steps[5].args = "--manifest-path=protoc-bin-vendored/Cargo.toml"
    /\ r[1].steps[6].args = "--manifest-path=protoc-bin-vendored-linux-riscv64/Cargo.toml"

\* The (platform, channel) pairs the loops of jobs() do not skip.
RemainingPairs ==
    { p \in PlatformSet \X ChannelSet :
        ~ (p[2] = "beta" /\ p[1].name \in {"macos", "windows"}) }

ExtraJobsAtEnd ==
    /\ Len(r) >= 3
    /\ r[Len(r) - 2].id = "cargo-doc"
    /\ r[Len(r) - 2].steps[4].kind = "cargo_doc"
    /\ r[Len(r) - 1] = rustfmt_check_job
    /\ r[Len(r)] = mega_linter_job
    /\ \A i \in 1..(Len(r) - 3) : IsMatrixJob(r[i])

AbsentPairs ==
    { p \in PlatformSet \X ChannelSet : JobsWithId(JobId(p[1], p[2])) = {} }

MatrixAsEmitted ==
    /\ \A p \in (PlatformSet \X ChannelSet) \ AbsentPairs :
          /\ Cardinality(JobsWithId(JobId(p[1], p[2]))) = 1
          /\ \A i \in JobsWithId(JobId(p[1], p[2])) : r[i].runs_on = p[1].ghwf
    /\ \A i \in 1..(Len(r) - 3), j \in 1..(Len(r) - 3) : i < j =>
          \E ip \in 1..Len(Platforms), ic \in 1..Len(Channels),
             jp \in 1..Len(Platforms), jc \in 1..Len(Channels) :
              /\ r[i].id = JobId(Platforms[ip], Channels[ic])
              /\ r[j].id = JobId(Platforms[jp], Channels[jc])
              /\ (ic < jc \/ (ic = jc /\ ip < jp))

\* C8 as stated: exactly one pair of {linux, macos, windows} x {stable,
\* beta, nightly} has no job; every other pair has exactly one job, with id
\* <os>-<channel> on that platform's runner, the jobs emitted channel-major.
C8_ExactlyOnePairPruned ==
    pc = "done" => (Cardinality(AbsentPairs) = 1 /\ MatrixAsEmitted)

\* C8 as amended: exactly the two pairs (macos, beta) and (windows, beta)
\* have no job; every other pair has exactly one job, with id <os>-<channel>
\* on that platform's runner, the jobs emitted channel-major.
C8_BetaPairsPruned ==
    pc = "done" =>
        /\ AbsentPairs = { <<MACOS, "beta">>, <<WINDOWS, "beta">> }
        /\ MatrixAsEmitted

\* jobs() has returned; linux-beta is followed by linux-nightly.
C8_Witness ==
    /\ pc = "done"
    /\ Len(r) = 10
    /\ r[3].id = "windows-stable" /\ r[3].runs_on = "WindowsLatest"
    /\ r[4].id = "linux-beta"
    /\ r[5].id = "linux-nightly"

====
